---- MODULE Spec2Model ----
(***************************************************************************)
(* Model of the GCS filesystem adapter (gcsfs.GCS), the GCS streaming      *)
(* utility (gcsutil.GCSUtil) and the context-aware reader (ioutil).        *)
(*                                                                         *)
(* The bucket is a partial function from object keys to byte sequences.    *)
(* One caller issues the adapter's operations back to back; operations     *)
(* that make several store calls (Rename, RemoveAll, StreamIntoDFS) take   *)
(* one step per store call.  Every store call can fail with a transient    *)
(* error, at most MaxFaults times in one adapter call.  The caller looks   *)
(* at the result of a call (pc = "done") and then goes on to its next call *)
(* (Resume).  Three specifications share the state and Init: Spec has the  *)
(* calls that finish in one step, SpecNamespace has Rename and RemoveAll,  *)
(* SpecStream has StreamIntoDFS and the calls that read back.              *)
(***************************************************************************)
EXTENDS Integers, Sequences, FiniteSets, TLC

\* ---------------------------------------------------------------- bounds
MaxLen == 1          \* longest object / source stream, in bytes
MaxFaults == 1       \* transient store failures injected per adapter call
MaxChunk == 1        \* most bytes one source Read hands to io.Copy
NumWriters == 2      \* concurrent callers of StreamIntoDFS

\* ------------------------------------------------------ program constants
InvalidBehaviour == 0
Panic == 1
Warn == 2
Ignore == 3
OtherBehaviour == 4  \* Behaviour is an int: New takes any value
MaxRetries == 5
FileMode == 438      \* 0666

\* ------------------------------------------------------------ value sets
Bytes == {0, 1}
Contents == UNION {[1..n -> Bytes] : n \in 0..MaxLen}

\* Object keys are strings, written as sequences of character codes:
\* "a/1", "a/2", "b/1".
Names == {<<97, 47, 49>>, <<97, 47, 50>>, <<98, 47, 49>>}

IsPrefixOf(p, k) == Len(p) <= Len(k) /\ SubSeq(k, 1, Len(p)) = p

\* Every string that is a prefix of some key, "" included.
Prefixes == {SubSeq(k, 1, n) : k \in Names, n \in 0..3}

Behaviours == {InvalidBehaviour, Panic, Warn, Ignore, OtherBehaviour}

Buckets == UNION {[S -> Contents] : S \in SUBSET Names}

\* ----------------------------------------------------------------- errors
\* An error value carries its kind and the position, in the log of the
\* adapter call, of the store call that produced it.
Nil == [kind |-> "nil"]
Err(k, i) == [kind |-> k, at |-> i]
Errorf(msg) == [kind |-> "NotImplemented", msg |-> msg]
EOF == [kind |-> "EOF"]
\* fmt.Errorf("... gcs://%s ... %s", filepath.Join(bucketName, name), err):
\* the text names the object and holds the text of the cause.
ErrorfAt(msg, name, e) ==
    [kind |-> "Errorf", msg |-> msg, dest |-> name, cause |-> e]
\* fmt.Errorf("... %s", err.Error()): the text holds the text of the cause.
ErrorfOf(msg, e) == [kind |-> "Errorf", msg |-> msg, cause |-> e]

VARIABLES
    bucket,         \* the objects of the bucket: key -> bytes
    BehaviourMode,  \* GCS.BehaviourMode, set by New
    pc,             \* "idle", a multi-step call in progress, "done", "panicked"
    call,           \* the adapter call in progress or just finished
    pre,            \* the bucket when that call started
    log,            \* the store calls that call has made, in order
    ret,            \* what that call returned
    frame,          \* the locals of a multi-step call
    prev,           \* the caller's previous call, when it was a successful
                    \* overwriting StreamIntoDFS and the caller now reads
    disk,           \* the caller's local files: path -> bytes
    inflight        \* the StreamIntoDFS calls of concurrent callers

vars == <<bucket, BehaviourMode, pc, call, pre, log, ret, frame, prev, disk,
          inflight>>

NoCall == [op |-> "none"]
NoRet == [outcome |-> "none"]
NoFrame == [f |-> "none"]
NilVal == <<>>
NoFiles == <<>>
NoWriters == <<>>
Some(v) == <<v>>

Returned(e, v) == [outcome |-> "returned", err |-> e, val |-> v]
ReturnedN(e, v, n) == [n |-> n, outcome |-> "returned", err |-> e, val |-> v]
Panicked(msg) == [msg |-> msg, outcome |-> "panicked"]

\* ------------------------------------------------------- store primitives
Ev(prim, key, e) == [err |-> e, prim |-> prim, key |-> key]

\* Transient failures among the store calls l, and whether one more may be
\* injected.
Faults(l) == Cardinality({i \in 1..Len(l) : l[i].err.kind = "Transient"})
MayFault(l, f) == f => Faults(l) < MaxFaults

\* storage.NewClient
NewClient(l, f) == IF f THEN Err("Transient", Len(l) + 1) ELSE Nil

\* ObjectHandle.NewReader / ObjectHandle.Attrs / ObjectHandle.Delete on key k
Lookup(b, k, l, f) ==
    IF f THEN Err("Transient", Len(l) + 1)
    ELSE IF k \notin DOMAIN b THEN Err("ErrObjectNotExist", Len(l) + 1)
    ELSE Nil

Put(b, k, c) == [x \in (DOMAIN b) \cup {k} |-> IF x = k THEN c ELSE b[x]]
Delete(b, k) == [x \in (DOMAIN b) \ {k} |-> b[x]]

\* ------------------------------------------------------------ call frames
\* A call of several steps starts: it has made the store calls l so far.
Start(c, l, fr) ==
    /\ pc = "idle"
    /\ pc' = c.op
    /\ call' = c
    /\ pre' = bucket
    /\ log' = l
    /\ ret' = NoRet
    /\ frame' = fr
    /\ prev' = NoCall
    /\ UNCHANGED <<bucket, BehaviourMode, disk, inflight>>

\* A call that finishes in the step that starts it: it leaves the bucket b,
\* the local files d, the log l and the result r.
FinishLocal(c, b, d, l, r) ==
    /\ pc = "idle"
    /\ call' = c
    /\ pre' = bucket
    /\ bucket' = b
    /\ disk' = d
    /\ log' = l
    /\ ret' = r
    /\ frame' = NoFrame
    /\ pc' = IF r.outcome = "panicked" THEN "panicked" ELSE "done"
    /\ UNCHANGED <<BehaviourMode, prev, inflight>>

\* The same for a call that does not touch the local files.
Finish(c, b, l, r) == FinishLocal(c, b, disk, l, r)

\* A multi-step call goes on: bucket b, one more store call ev, locals fr.
Step(b, ev, fr) ==
    /\ bucket' = b
    /\ log' = Append(log, ev)
    /\ frame' = fr
    /\ UNCHANGED <<BehaviourMode, pc, call, pre, ret, prev, disk, inflight>>

\* A multi-step call returns after the store calls evs.
Return(b, evs, r) ==
    /\ bucket' = b
    /\ log' = log \o evs
    /\ ret' = r
    /\ frame' = NoFrame
    /\ pc' = "done"
    /\ UNCHANGED <<BehaviourMode, call, pre, prev, disk, inflight>>

\* The caller has looked at the result and goes on to its next call.
Resume ==
    /\ pc = "done"
    /\ pc' = "idle"
    /\ prev' = IF call.op = "StreamIntoDFS" /\ call.overwrite /\ ret.err = Nil
               THEN [name |-> call.name, op |-> call.op, src |-> call.src]
               ELSE NoCall
    /\ call' = NoCall
    /\ pre' = bucket
    /\ log' = <<>>
    /\ ret' = NoRet
    /\ frame' = NoFrame
    /\ UNCHANGED <<bucket, BehaviourMode, disk, inflight>>

\* ----------------------------------------------------------------- policy
\* (variant: the modes Warn and Ignore taken for each other)
throwUnimplementedSwapped(mode, message) ==
    IF mode = Panic THEN [msg |-> message, panic |-> TRUE]
    ELSE IF mode = Ignore THEN [err |-> Errorf(message), panic |-> FALSE]
    ELSE IF mode = Warn THEN [err |-> Nil, panic |-> FALSE]
    ELSE [msg |-> "Uninitialized gcsfs behaviour mode", panic |-> TRUE]

\* (variant: a mode that is none of the three is taken for Ignore)
throwUnimplementedLenient(mode, message) ==
    IF mode = Panic THEN [msg |-> message, panic |-> TRUE]
    ELSE IF mode = Warn THEN [err |-> Errorf(message), panic |-> FALSE]
    ELSE [err |-> Nil, panic |-> FALSE]

throwUnimplemented(mode, message) ==
    IF mode = Panic THEN [msg |-> message, panic |-> TRUE]
    ELSE IF mode = Warn THEN [err |-> Errorf(message), panic |-> FALSE]
    ELSE IF mode = Ignore THEN [err |-> Nil, panic |-> FALSE]
    ELSE [msg |-> "Uninitialized gcsfs behaviour mode", panic |-> TRUE]

\* The result of a call that only returns what throwUnimplemented gives it.
PolicyResult(t, onErr, onNil) ==
    IF t.panic THEN Panicked(t.msg)
    ELSE Returned(t.err, IF t.err = Nil THEN onNil ELSE onErr)

\* User has no error result: it returns "" when throwUnimplemented gives nil
\* and the message otherwise.
User ==
    LET t == throwUnimplemented(BehaviourMode, "User method not implemented")
    IN Finish([op |-> "User"], bucket, <<>>,
              IF t.panic THEN Panicked(t.msg)
              ELSE Returned(Nil, Some(IF t.err = Nil THEN ""
                                      ELSE "User method not implemented")))

\* (variant: Append returns the not-implemented error whatever the mode)
AppendResultFixed(mode) ==
    Returned(Errorf("Append method not implemented"), NilVal)

\* GCS.Append (Append is already the operator of Sequences)
AppendResult(mode) ==
    PolicyResult(throwUnimplemented(mode, "Append method not implemented"),
                 NilVal, NilVal)

GCSAppend ==
    \E name \in Names :
        Finish([name |-> name, op |-> "Append"], bucket, <<>>,
               AppendResult(BehaviourMode))

Chmod ==
    \E name \in Names :
        Finish([name |-> name, op |-> "Chmod"], bucket, <<>>,
               PolicyResult(
                   throwUnimplemented(BehaviourMode, "chmod not implemented"),
                   NilVal, NilVal))

Chown ==
    \E name \in Names :
        Finish([name |-> name, op |-> "Chown"], bucket, <<>>,
               PolicyResult(
                   throwUnimplemented(BehaviourMode, "chown not implemented"),
                   NilVal, NilVal))

Chtimes ==
    \E name \in Names :
        Finish([name |-> name, op |-> "Chtimes"], bucket, <<>>,
               PolicyResult(
                   throwUnimplemented(BehaviourMode, "chtimes not implemented"),
                   NilVal, NilVal))

Walk ==
    \E root \in Prefixes :
        Finish([name |-> root, op |-> "Walk"], bucket, <<>>,
               PolicyResult(
                   throwUnimplemented(BehaviourMode, "walk not implemented"),
                   NilVal, NilVal))

\* ------------------------------------------------- read / metadata calls
FileInfoOf(name, size) ==
    [name |-> name, mode |-> FileMode, size |-> size, isDir |-> FALSE]

\* attrs is nil whenever Attrs returns an error, and Stat reads attrs.Size
\* without looking at err: a nil pointer dereference.
StatResult(b, name, e) ==
    IF e # Nil
    THEN Panicked("invalid memory address or nil pointer dereference")
    ELSE Returned(Nil, Some(FileInfoOf(name, Len(b[name]))))

Stat ==
    \E name \in Names, fc, fa \in BOOLEAN :
        LET c == [name |-> name, op |-> "Stat"]
            ec == NewClient(<<>>, fc)
            l1 == <<Ev("NewClient", name, ec)>>
            ea == Lookup(bucket, name, l1, fa)
            l2 == Append(l1, Ev("Attrs", name, ea))
        IN
        IF ec # Nil
        THEN Finish(c, bucket, l1, Returned(ec, NilVal))
        ELSE Finish(c, bucket, l2, StatResult(bucket, name, ea))

\* ioutil.ReadAll returns what it read before a failing Read together with
\* the error; got is the number of bytes read before the failure.
ReadFile ==
    \E name \in Names, fc, fo, fr \in BOOLEAN, got \in 0..MaxLen :
        LET c == [name |-> name, op |-> "ReadFile"]
            ec == NewClient(<<>>, fc)
            l1 == <<Ev("NewClient", name, ec)>>
            eo == Lookup(bucket, name, l1, fo)
            l2 == Append(l1, Ev("NewReader", name, eo))
            er == IF fr THEN Err("Transient", Len(l2) + 1) ELSE Nil
            l3 == l2 \o <<Ev("Read", name, er), Ev("Close", name, Nil)>>
        IN
        IF ec # Nil
        THEN Finish(c, bucket, l1, Returned(ec, NilVal))
        ELSE IF eo # Nil
        THEN Finish(c, bucket, l2, Returned(eo, NilVal))
        ELSE IF fr
        THEN /\ got <= Len(bucket[name])
             /\ Finish(c, bucket, l3,
                       Returned(er, Some(SubSeq(bucket[name], 1, got))))
        ELSE /\ got = 0
             /\ Finish(c, bucket, l3, Returned(Nil, Some(bucket[name])))

\* ------------------------------------------------------------------ Rename
\* One Copier.Run: the object at old is copied over new in one store-side
\* rewrite, or the run fails and the bucket is as it was.
\* (variant: a true move, the source is deleted after the copy)
CopierRunMove(b, old, new, l, f) ==
    LET e == Lookup(b, old, l, f) IN
    [bucket |-> IF e = Nil THEN Delete(Put(b, new, b[old]), old) ELSE b,
     err |-> e]

CopierRun(b, old, new, l, f) ==
    LET e == Lookup(b, old, l, f) IN
    [bucket |-> IF e = Nil THEN Put(b, new, b[old]) ELSE b, err |-> e]

RenameCall ==
    \E old, new \in Names, fc \in BOOLEAN :
        LET c == [op |-> "Rename", old |-> old, new |-> new]
            ec == NewClient(<<>>, fc)
            l1 == <<Ev("NewClient", old, ec)>>
        IN
        IF ec # Nil
        THEN Finish(c, bucket, l1, Returned(ec, NilVal))
        ELSE Start(c, l1, [err |-> Nil, retries |-> 0])

\* (variant: one retry too many)
RenameLoopsOneMore(retries) == retries <= MaxRetries

\* The loop goes on while retries < 5.
RenameLoops(retries) == retries < MaxRetries

\* What Rename returns when its loop ends without a successful run.
RenameLastErr(errOfRun, errBefore) == errOfRun

\* One pass of the retry loop; after a failed run the loop sleeps, counts
\* the retry and, when the count has reached 5, returns the error.
RenameRun ==
    \E f \in BOOLEAN :
        LET r == CopierRun(bucket, call.old, call.new, log, f)
            ev == Ev("Copy", call.new, r.err)
            e == RenameLastErr(r.err, frame.err)
        IN
        /\ pc = "Rename"
        /\ MayFault(log, f)
        /\ RenameLoops(frame.retries)
        /\ IF r.err = Nil
           THEN Return(r.bucket, <<ev>>, Returned(Nil, NilVal))
           ELSE IF RenameLoops(frame.retries + 1)
           THEN Step(bucket, ev, [err |-> e, retries |-> frame.retries + 1])
           ELSE Return(bucket, <<ev>>, Returned(e, NilVal))

\* --------------------------------------------------------------- RemoveAll
RECURSIVE LexLess(_, _)
LexLess(a, b) ==
    IF a = <<>> THEN b # <<>>
    ELSE IF b = <<>> THEN FALSE
    ELSE IF Head(a) # Head(b) THEN Head(a) < Head(b)
    ELSE LexLess(Tail(a), Tail(b))

RECURSIVE SortedKeys(_)
SortedKeys(S) ==
    IF S = {} THEN <<>>
    ELSE LET m == CHOOSE x \in S : \A y \in S \ {x} : LexLess(x, y)
         IN <<m>> \o SortedKeys(S \ {m})

\* Bucket.Objects with Prefix: dirname and no delimiter: every key that
\* starts with dirname, in lexical order.
\* (variant: only the object named dirname itself)
ListExact(b, dirname) ==
    SortedKeys({k \in DOMAIN b : k = dirname})

ListPrefix(b, dirname) ==
    SortedKeys({k \in DOMAIN b : IsPrefixOf(dirname, k)})

RemoveAllCall ==
    \E dirname \in Prefixes, fc \in BOOLEAN :
        LET c == [op |-> "RemoveAll", dirname |-> dirname]
            ec == NewClient(<<>>, fc)
            l1 == <<Ev("NewClient", dirname, ec)>>
        IN
        IF ec # Nil
        THEN Finish(c, bucket, l1, Returned(ec, NilVal))
        ELSE Start(c, l1, [fetched |-> FALSE, items |-> <<>>])

\* (variant: the loop goes on to the next object)
RemoveAllKeepGoing(e) == [err |-> e, stop |-> FALSE]

\* What the loop does after a Delete that failed with e: it returns e.
RemoveAllOnDeleteError(e) == [err |-> e, stop |-> TRUE]

\* One pass of the loop: iter.Next, then Delete of the object it gave.
RemoveAllStep ==
    \E fn, fd \in BOOLEAN :
        LET items == IF frame.fetched THEN frame.items
                     ELSE ListPrefix(bucket, call.dirname)
            en == IF fn THEN Err("Transient", Len(log) + 1) ELSE Nil
            evn == Ev("Next", call.dirname, en)
            obj == Head(items)
            ed == Lookup(bucket, obj, Append(log, evn), fd)
            evd == Ev("Delete", obj, ed)
            on == RemoveAllOnDeleteError(ed)
        IN
        /\ pc = "RemoveAll"
        /\ MayFault(log, fn)
        /\ MayFault(Append(log, evn), fd)
        /\ IF en # Nil
           THEN Return(bucket, <<evn>>, Returned(en, NilVal))
           ELSE IF items = <<>>
           THEN Return(bucket, <<evn>>, Returned(Nil, NilVal))
           ELSE IF ed # Nil /\ on.stop
           THEN Return(bucket, <<evn, evd>>, Returned(on.err, NilVal))
           ELSE /\ bucket' = IF ed = Nil THEN Delete(bucket, obj) ELSE bucket
                /\ log' = log \o <<evn, evd>>
                /\ frame' = [fetched |-> TRUE, items |-> Tail(items)]
                /\ UNCHANGED <<BehaviourMode, pc, call, pre, ret, prev,
                               disk, inflight>>

\* ---------------------------------------------------------------- Open
\* The reader Open returns streams the object as it is when it is opened.
Open ==
    \E name \in Names, fc, fo \in BOOLEAN :
        LET c == [name |-> name, op |-> "Open"]
            ec == NewClient(<<>>, fc)
            l1 == <<Ev("NewClient", name, ec)>>
            eo == Lookup(bucket, name, l1, fo)
            l2 == Append(l1, Ev("NewReader", name, eo))
        IN
        IF ec # Nil
        THEN Finish(c, bucket, l1, Returned(ec, NilVal))
        ELSE IF eo # Nil
        THEN Finish(c, bucket, l2, Returned(eo, NilVal))
        ELSE Finish(c, bucket, l2, Returned(Nil, Some(bucket[name])))

\* ---------------------------------------------------------- StreamIntoDFS
\* The wrapped reader: at most k bytes of what is left of src, or EOF, or a
\* failure.
SourceRead(src, pos, k, l, f) ==
    IF f
    THEN [err |-> Err("Transient", Len(l) + 1), prim |-> "Read", data |-> <<>>]
    ELSE IF pos = Len(src)
    THEN [err |-> EOF, prim |-> "Read", data |-> <<>>]
    ELSE [err |-> Nil, prim |-> "Read",
          data |-> SubSeq(src, pos + 1,
                          IF pos + k <= Len(src) THEN pos + k ELSE Len(src))]

\* (variant: the context is not looked at before the wrapped reader is read)
CtxReadUnchecked(ctxDone, src, pos, k, l, f) == SourceRead(src, pos, k, l, f)

\* interruptibleCtx.Read: the context first, then the wrapped reader.
CtxRead(ctxDone, src, pos, k, l, f) ==
    IF ctxDone
    THEN [err |-> Err("Canceled", Len(l) + 1), prim |-> "CtxErr", data |-> <<>>]
    ELSE SourceRead(src, pos, k, l, f)

\* (variant: the condition is never attached to the object handle)
ConflictNever(b, name, overwrite) == FALSE

\* The object the writer is bound to fails the condition DoesNotExist.
Conflict(b, name, overwrite) == ~overwrite /\ name \in DOMAIN b

\* Writer.Write: the bytes go to the upload; an upload that has already
\* been refused (early) or has broken (f) fails the Write.
WriterWrite(b, name, overwrite, l, f, early) ==
    IF f THEN Err("Transient", Len(l) + 1)
    ELSE IF early /\ Conflict(b, name, overwrite)
    THEN Err("PreconditionFailed", Len(l) + 1)
    ELSE Nil

\* (variant: the bytes are added to the end of the object already there)
FinalizedAppended(b, name, wc) ==
    Put(b, name, IF name \in DOMAIN b THEN b[name] \o wc ELSE wc)

\* The object the store holds once the writer is closed over the bytes wc.
Finalized(b, name, wc) == Put(b, name, wc)

\* (variant: the condition is not looked at when the upload is finished)
WriterCloseUnconditional(b, name, overwrite, wc, ctxDone, l, f) ==
    LET e == IF ctxDone THEN Err("Canceled", Len(l) + 1)
             ELSE IF f THEN Err("Transient", Len(l) + 1)
             ELSE Nil
    IN [bucket |-> IF e = Nil THEN Finalized(b, name, wc) ELSE b, err |-> e]

\* Writer.Close: finishes the upload; the object appears only now.
WriterClose(b, name, overwrite, wc, ctxDone, l, f) ==
    LET e == IF ctxDone THEN Err("Canceled", Len(l) + 1)
             ELSE IF f THEN Err("Transient", Len(l) + 1)
             ELSE IF Conflict(b, name, overwrite)
             THEN Err("PreconditionFailed", Len(l) + 1)
             ELSE Nil
    IN [bucket |-> IF e = Nil THEN Finalized(b, name, wc) ELSE b, err |-> e]

\* The caller streams into the object "a/1"; the other keys stand by.
StreamNames == {<<97, 47, 49>>}

StreamIntoDFSCall ==
    \E src \in Contents, name \in StreamNames, overwrite \in BOOLEAN :
        Start([name |-> name, op |-> "StreamIntoDFS",
               overwrite |-> overwrite, src |-> src],
              <<>>,
              [pos |-> 0, ctxDone |-> FALSE, wc |-> <<>>, copied |-> FALSE])

\* The caller's context is cancelled, or its deadline passes.
Cancel ==
    /\ pc = "StreamIntoDFS"
    /\ ~frame.ctxDone
    /\ frame' = [frame EXCEPT !.ctxDone = TRUE]
    /\ UNCHANGED <<bucket, BehaviourMode, pc, call, pre, log, ret, prev, disk,
                   inflight>>

\* What StreamIntoDFS returns when io.Copy has failed with e after n bytes.
StreamIntoDFSCopyError(n, name, e) ==
    ReturnedN(ErrorfAt("Error copying from input stream to", name, e),
              NilVal, n)

\* (variant: the writer is closed on the failure path too, as a deferred
\* Close would)
AbandonedFinalized(b, name, wc) == Finalized(b, name, wc)

\* The bucket once io.Copy has failed: StreamIntoDFS returns without closing
\* the writer, and an upload that is never closed is never finalized.
Abandoned(b, name, wc) == b

\* One pass of the loop of io.Copy: a Read, then a Write of what was read.
\* k, fr: what the source does; fw, early: what the upload does.
StreamIntoDFSCopy ==
    \E k \in 1..MaxChunk, fr \in BOOLEAN :
        LET r == CtxRead(frame.ctxDone, call.src, frame.pos, k, log, fr)
            evr == Ev(r.prim, call.name, r.err)
            l1 == Append(log, evr)
            n == Len(frame.wc)
        IN
        /\ pc = "StreamIntoDFS"
        /\ ~frame.copied
        /\ k = 1 \/ (k <= Len(call.src) - frame.pos /\ ~frame.ctxDone /\ ~fr)
        /\ fr => ~frame.ctxDone /\ MayFault(log, fr)
        /\ IF r.err = EOF
           THEN Step(bucket, evr, [frame EXCEPT !.copied = TRUE])
           ELSE IF r.err # Nil
           THEN Return(Abandoned(bucket, call.name, frame.wc), <<evr>>,
                       StreamIntoDFSCopyError(n, call.name, r.err))
           ELSE \E fw, early \in BOOLEAN :
                LET ew == WriterWrite(bucket, call.name, call.overwrite, l1,
                                      fw, early)
                    evw == Ev("Write", call.name, ew)
                IN
                /\ MayFault(l1, fw)
                /\ early => ~fw /\ Conflict(bucket, call.name, call.overwrite)
                /\ IF ew # Nil
                   THEN Return(Abandoned(bucket, call.name, frame.wc),
                               <<evr, evw>>,
                               StreamIntoDFSCopyError(n, call.name, ew))
                   ELSE /\ bucket' = bucket
                        /\ log' = log \o <<evr, evw>>
                        /\ frame' = [frame EXCEPT
                                       !.pos = frame.pos + Len(r.data),
                                       !.wc = frame.wc \o r.data]
                        /\ UNCHANGED <<BehaviourMode, pc, call, pre, ret, prev,
                                       disk, inflight>>

\* io.Copy has returned without error: the writer is closed.
StreamIntoDFSClose ==
    \E f \in BOOLEAN :
        LET r == WriterClose(bucket, call.name, call.overwrite, frame.wc,
                             frame.ctxDone, log, f)
        IN
        /\ pc = "StreamIntoDFS"
        /\ frame.copied
        /\ f => ~frame.ctxDone /\ MayFault(log, f)
        /\ Return(r.bucket, <<Ev("Close", call.name, r.err)>>,
                  ReturnedN(r.err, NilVal, Len(frame.wc)))

\* ------------------------------------------- concurrent StreamIntoDFS
\* Several callers stream into the same key at the same time, each from a
\* source of its own: caller p sends p bytes (MaxLen at most), all p % 2.
Procs == 1..NumWriters
RaceName == <<97, 47, 49>>
RaceSource(p) == [i \in 1..(IF p <= MaxLen THEN p ELSE MaxLen) |-> p % 2]

\* The locals of one caller: where it is, its overwrite flag, the bytes it
\* has handed to its writer, and the error it returned.
Writer(st, overwrite, wc, e) ==
    [err |-> e, overwrite |-> overwrite, wc |-> wc, st |-> st]
IdleWriter == Writer("idle", FALSE, <<>>, Nil)

\* Transient failures met so far by the concurrent callers.
RaceFaults ==
    Cardinality({p \in Procs :
        \/ inflight[p].err.kind = "Transient"
        \/ /\ inflight[p].err.kind = "Errorf"
           /\ inflight[p].err.cause.kind = "Transient"})

RaceStep(p, b, w) ==
    /\ bucket' = b
    /\ inflight' = [inflight EXCEPT ![p] = w]
    /\ UNCHANGED <<BehaviourMode, pc, call, pre, log, ret, frame, prev, disk>>

\* Caller p calls StreamIntoDFS: the writer is made, nothing is sent yet.
RaceCall(p) ==
    \E overwrite \in BOOLEAN :
        /\ inflight[p].st = "idle"
        /\ RaceStep(p, bucket, Writer("copy", overwrite, <<>>, Nil))

\* One pass of io.Copy in caller p.
RaceCopy(p) ==
    \E k \in 1..MaxChunk, fr, early \in BOOLEAN :
        LET w == inflight[p]
            src == RaceSource(p)
            r == CtxRead(FALSE, src, Len(w.wc), k, <<>>, fr)
            ew == WriterWrite(bucket, RaceName, w.overwrite, <<>>, FALSE,
                              early)
            e == IF r.err # Nil THEN r.err ELSE ew
            failed == Writer("done", w.overwrite, w.wc,
                             ErrorfAt("Error copying from input stream to",
                                      RaceName, e))
        IN
        /\ w.st = "copy"
        /\ k = 1 \/ (k <= Len(src) - Len(w.wc) /\ ~fr)
        /\ fr => ~early /\ RaceFaults < MaxFaults
        /\ early => r.err = Nil /\ Conflict(bucket, RaceName, w.overwrite)
        /\ IF r.err = EOF
           THEN RaceStep(p, bucket, Writer("copied", w.overwrite, w.wc, Nil))
           ELSE IF e # Nil
           THEN RaceStep(p, Abandoned(bucket, RaceName, w.wc), failed)
           ELSE RaceStep(p, bucket,
                         Writer("copy", w.overwrite, w.wc \o r.data, Nil))

\* io.Copy has returned without error in caller p: its writer is closed.
RaceClose(p) ==
    \E f \in BOOLEAN :
        LET w == inflight[p]
            r == WriterClose(bucket, RaceName, w.overwrite, w.wc, FALSE,
                             <<>>, f)
        IN
        /\ w.st = "copied"
        /\ f => RaceFaults < MaxFaults
        /\ RaceStep(p, r.bucket, Writer("done", w.overwrite, w.wc, r.err))

\* ---------------------------------------------------------- StreamFromDFS
\* (variant: the source is closed only on the path that returns no error)
DeferredCloseOnSuccess(object, e) ==
    IF e = Nil THEN <<Ev("Close", object, Nil)>> ELSE <<>>

\* defer rc.Close(): it runs when StreamFromDFS returns, whatever error e
\* it returns.
DeferredClose(object, e) == <<Ev("Close", object, Nil)>>

\* got: the bytes copied before a failing read or write.
StreamFromDFS ==
    \E object \in Names, fo, fr, fw, fcl \in BOOLEAN, got \in 0..MaxLen :
        LET c == [name |-> object, op |-> "StreamFromDFS"]
            eo == Lookup(bucket, object, <<>>, fo)
            l1 == <<Ev("NewReader", object, eo)>>
            ecp == IF fr \/ fw THEN Err("Transient", 2) ELSE Nil
            l2 == Append(l1, Ev(IF fr THEN "Read" ELSE "Write", object, ecp))
            ecl == IF fcl THEN Err("Transient", 3) ELSE Nil
            l3 == Append(l2, Ev("CloseDst", object, ecl))
            eCopy == ErrorfOf("failed to fully copy file from GCS", ecp)
            eClose == IF ecl # Nil
                      THEN ErrorfAt("failed to close file", object, ecl)
                      ELSE Nil
        IN
        IF eo # Nil
        THEN Finish(c, bucket, l1,
                    ReturnedN(ErrorfAt("failed to read object", object, eo),
                              NilVal, 0))
        ELSE IF ecp # Nil
        THEN /\ ~(fr /\ fw)
             /\ got <= Len(bucket[object])
             /\ fw => got < Len(bucket[object])
             /\ Finish(c, bucket, l2 \o DeferredClose(object, eCopy),
                       ReturnedN(eCopy,
                                 Some(SubSeq(bucket[object], 1, got)), got))
        ELSE /\ got = 0
             /\ Finish(c, bucket, l3 \o DeferredClose(object, eClose),
                       ReturnedN(eClose,
                                 Some(bucket[object]), Len(bucket[object])))

\* ------------------------------------------------ CopyToLocal, CopyToRemote
\* The caller copies between the objects and the local files "a/1", "a/2".
CopyNames == {<<97, 47, 49>>, <<97, 47, 50>>}
Disks == UNION {[S -> Contents] : S \in SUBSET CopyNames}

\* os.Open / os.Create / a Read or Write of the local file: f is a failure of
\* the local file system.
LocalOpen(d, path, l, f) ==
    IF f THEN Err("LocalIO", Len(l) + 1)
    ELSE IF path \notin DOMAIN d THEN Err("ErrNotExist", Len(l) + 1)
    ELSE Nil
LocalIO(l, f) == IF f THEN Err("LocalIO", Len(l) + 1) ELSE Nil

\* The object CopyToLocal opens its reader on: client.bucket.Object(dst).
CopyToLocalObject(src, dst) == dst

\* What io.Copy meets: nothing, a failing read or a failing write.
CopyFaults == {"none", "read", "write"}

\* got: the bytes copied before a failing read or write.
CopyToLocal ==
    \E src, dst \in CopyNames, fc, fo \in BOOLEAN :
        LET c == [op |-> "CopyToLocal", src |-> src, dst |-> dst]
            key == CopyToLocalObject(src, dst)
            ec == NewClient(<<>>, fc)
            l1 == <<Ev("NewClient", src, ec)>>
            eo == Lookup(bucket, key, l1, fo)
            l2 == Append(l1, Ev("NewReader", key, eo))
            rcClose == <<Ev("Close", key, Nil)>>
            fClose == <<Ev("CloseFile", dst, Nil)>>
        IN
        /\ fc => ~fo
        /\ IF ec # Nil
           THEN Finish(c, bucket, l1, Returned(ec, NilVal))
           ELSE IF eo # Nil
           THEN Finish(c, bucket, l2, Returned(eo, NilVal))
           ELSE \E fcr \in BOOLEAN, fail \in CopyFaults, got \in 0..MaxLen :
                LET ecr == LocalIO(l2, fcr)
                    l3 == Append(l2, Ev("Create", dst, ecr))
                    ecp == IF fail = "read"
                           THEN Err("Transient", Len(l3) + 1)
                           ELSE LocalIO(l3, fail = "write")
                    l4 == Append(l3, IF fail = "write"
                                     THEN Ev("WriteFile", dst, ecp)
                                     ELSE Ev("Read", key, ecp))
                    data == IF fail = "none" THEN bucket[key]
                            ELSE SubSeq(bucket[key], 1, got)
                IN
                /\ (fcr \/ fail = "none") => got = 0
                /\ fcr => fail = "none"
                /\ got <= Len(bucket[key])
                /\ fail = "write" => got < Len(bucket[key])
                /\ IF ecr # Nil
                   THEN Finish(c, bucket, l3 \o rcClose,
                               Returned(ecr, NilVal))
                   ELSE FinishLocal(c, bucket, Put(disk, dst, data),
                                    l4 \o fClose \o rcClose,
                                    Returned(ecp, NilVal))

\* (variant: the writer is closed only when the copy went through, as
\* StreamIntoDFS does)
CopyToRemoteCloseIfCopied(b, dst, wc, ecp, l, f) ==
    IF ecp = Nil THEN WriterClose(b, dst, TRUE, wc, FALSE, l, f)
    ELSE [bucket |-> b, err |-> Nil]

\* defer writer.Close(): it runs on every return once the writer is made,
\* whatever io.Copy returned (ecp); the writer carries no condition.
CopyToRemoteClose(b, dst, wc, ecp, l, f) ==
    WriterClose(b, dst, TRUE, wc, FALSE, l, f)

\* What CopyToRemote returns: the error of io.Copy; the error of the
\* deferred Close (ecl) is dropped.
CopyToRemoteResult(ecp, ecl) == ecp

\* got: the bytes copied before a failing read or write.  A writer whose
\* Write has failed fails its Close too.
CopyToRemote ==
    \E src, dst \in CopyNames, fc, fo \in BOOLEAN :
        LET c == [op |-> "CopyToRemote", src |-> src, dst |-> dst]
            ec == NewClient(<<>>, fc)
            l1 == <<Ev("NewClient", dst, ec)>>
            eo == LocalOpen(disk, src, l1, fo)
            l2 == Append(l1, Ev("OpenFile", src, eo))
        IN
        /\ fc => ~fo
        /\ IF ec # Nil
           THEN Finish(c, bucket, l1, Returned(ec, NilVal))
           ELSE IF eo # Nil
           THEN Finish(c, bucket, l2, Returned(eo, NilVal))
           ELSE \E fail \in CopyFaults, fcl \in BOOLEAN, got \in 0..MaxLen :
                LET ecp == IF fail = "read" THEN LocalIO(l2, TRUE)
                           ELSE IF fail = "write"
                           THEN Err("Transient", Len(l2) + 1)
                           ELSE Nil
                    l3 == Append(l2, IF fail = "write"
                                     THEN Ev("Write", dst, ecp)
                                     ELSE Ev("ReadFile", src, ecp))
                    wc == IF fail = "none" THEN disk[src]
                          ELSE SubSeq(disk[src], 1, got)
                    cl == CopyToRemoteClose(bucket, dst, wc, ecp, l3,
                                            fcl \/ fail = "write")
                    l4 == l3 \o <<Ev("Close", dst, cl.err),
                                  Ev("CloseFile", src, Nil)>>
                IN
                /\ fail = "none" => got = 0
                /\ fail = "write" => ~fcl
                /\ got <= Len(disk[src])
                /\ fail = "write" => got < Len(disk[src])
                /\ Finish(c, cl.bucket, l4,
                          Returned(CopyToRemoteResult(ecp, cl.err), NilVal))

CreateEmptyFile ==
    \E name \in CopyNames, fc, fcl \in BOOLEAN :
        LET c == [name |-> name, op |-> "CreateEmptyFile"]
            ec == NewClient(<<>>, fc)
            l1 == <<Ev("NewClient", name, ec)>>
            cl == WriterClose(bucket, name, TRUE, <<>>, FALSE, l1, fcl)
        IN
        /\ fc => ~fcl
        /\ IF ec # Nil
           THEN Finish(c, bucket, l1, Returned(ec, NilVal))
           ELSE Finish(c, cl.bucket, Append(l1, Ev("Close", name, cl.err)),
                       Returned(cl.err, NilVal))

Remove ==
    \E name \in CopyNames, fc, fd \in BOOLEAN :
        LET c == [name |-> name, op |-> "Remove"]
            ec == NewClient(<<>>, fc)
            l1 == <<Ev("NewClient", name, ec)>>
            ed == Lookup(bucket, name, l1, fd)
        IN
        /\ fc => ~fd
        /\ IF ec # Nil
           THEN Finish(c, bucket, l1, Returned(ec, NilVal))
           ELSE Finish(c, IF ed = Nil THEN Delete(bucket, name) ELSE bucket,
                       Append(l1, Ev("Delete", name, ed)),
                       Returned(ed, NilVal))

Init ==
    /\ bucket \in Buckets
    /\ BehaviourMode \in Behaviours
    /\ pc = "idle"
    /\ call = NoCall
    /\ pre = bucket
    /\ log = <<>>
    /\ ret = NoRet
    /\ frame = NoFrame
    /\ prev = NoCall
    /\ disk = NoFiles
    /\ inflight = NoWriters

\* The adapter of the test client: gcsfs.New(bucketName, gcsfs.Panic).
InitTestClient == Init /\ BehaviourMode = Panic

\* The caller makes the calls that finish in one step: the calls that only
\* consult the policy, and the read and metadata calls.
Next ==
    \/ User
    \/ GCSAppend
    \/ Chmod
    \/ Chown
    \/ Chtimes
    \/ Walk
    \/ Stat
    \/ ReadFile
    \/ Open
    \/ Resume

Spec == Init /\ [][Next]_vars

\* The caller makes the namespace calls.
NextNamespace ==
    \/ RenameCall
    \/ RenameRun
    \/ RemoveAllCall
    \/ RemoveAllStep
    \/ Resume

SpecNamespace == InitTestClient /\ [][NextNamespace]_vars

\* The caller streams into the bucket and reads back.
NextStream ==
    \/ StreamIntoDFSCall
    \/ Cancel
    \/ StreamIntoDFSCopy
    \/ StreamIntoDFSClose
    \/ ReadFile
    \/ Open
    \/ StreamFromDFS
    \/ Resume

SpecStream == InitTestClient /\ [][NextStream]_vars

\* Concurrent callers of StreamIntoDFS on one key, which is there or not.
InitRace ==
    /\ bucket \in {b \in Buckets : DOMAIN b \subseteq {RaceName}}
    /\ inflight = [p \in Procs |-> IdleWriter]
    /\ BehaviourMode = Panic
    /\ pc = "idle"
    /\ call = NoCall
    /\ pre = bucket
    /\ log = <<>>
    /\ ret = NoRet
    /\ frame = NoFrame
    /\ prev = NoCall
    /\ disk = NoFiles

NextRace == \E p \in Procs : RaceCall(p) \/ RaceCopy(p) \/ RaceClose(p)

SpecRace == InitRace /\ [][NextRace]_vars

\* The caller has local files and a bucket over the same two names.
InitCopy ==
    /\ bucket \in {b \in Buckets : DOMAIN b \subseteq CopyNames}
    /\ disk \in Disks
    /\ BehaviourMode = Panic
    /\ pc = "idle"
    /\ call = NoCall
    /\ pre = bucket
    /\ log = <<>>
    /\ ret = NoRet
    /\ frame = NoFrame
    /\ prev = NoCall
    /\ inflight = NoWriters

\* The caller copies files to and from the bucket and creates and removes
\* objects.
NextCopy ==
    \/ CopyToLocal
    \/ CopyToRemote
    \/ CreateEmptyFile
    \/ Remove
    \/ Resume

SpecCopy == InitCopy /\ [][NextCopy]_vars

\* ================================================================== claims
Finished == pc \in {"done", "panicked"}
NoTransient == \A i \in 1..Len(log) : log[i].err.kind # "Transient"
PolicyOps == {"Chmod", "Chown", "Chtimes", "Walk"}

\* C1: for every path that is not a key of the bucket when the call is
\* made, Stat and ReadFile return a not-found error: neither returns a
\* result with a nil error and neither aborts the process (no transient
\* store failure being in play).
C1_MissingPathIsNotFound ==
    (Finished /\ call.op \in {"Stat", "ReadFile"}
        /\ call.name \notin DOMAIN pre /\ NoTransient)
    => (ret.outcome = "returned" /\ ret.err.kind = "ErrObjectNotExist")

\* C2 as stated: Append returns a not-implemented error in every mode; it
\* never returns a nil error and never aborts.
C2_AppendAlwaysNotImplemented ==
    (Finished /\ call.op = "Append")
    => (ret.outcome = "returned" /\ ret.err.kind = "NotImplemented")

\* C2 as amended: Append goes through the policy like User, Chmod, Chown,
\* Chtimes and Walk: it returns the not-implemented error (and a nil writer)
\* in Warn mode only, returns a nil writer and a nil error in Ignore mode,
\* and aborts in Panic mode and in any mode that is none of the three.
C2_AppendFollowsPolicy ==
    (Finished /\ call.op = "Append")
    => /\ BehaviourMode = Warn
            => (ret.outcome = "returned" /\ ret.err.kind = "NotImplemented"
                /\ ret.val = NilVal)
       /\ BehaviourMode = Ignore
            => (ret.outcome = "returned" /\ ret.err = Nil /\ ret.val = NilVal)
       /\ BehaviourMode \notin {Warn, Ignore} => ret.outcome = "panicked"
       /\ bucket = pre

C2_Witness ==
    /\ pc = "done" /\ call.op = "Append"
    /\ BehaviourMode = Ignore /\ ret.err = Nil

\* C3: for Chmod, Chown, Chtimes and Walk the mode alone fixes the outcome:
\* no error in Ignore mode, a not-implemented error in Warn mode, an abort
\* in Panic mode; the bucket is unchanged in all three.
C3_ModeFixesOutcome ==
    (Finished /\ call.op \in PolicyOps)
    => /\ BehaviourMode = Ignore => (ret.outcome = "returned" /\ ret.err = Nil)
       /\ BehaviourMode = Warn
            => (ret.outcome = "returned" /\ ret.err.kind = "NotImplemented")
       /\ BehaviourMode = Panic => (ret.outcome = "panicked" /\ pc = "panicked")
       /\ bucket = pre

C3_Witness ==
    /\ pc = "done" /\ call.op = "Chtimes" /\ BehaviourMode = Warn
    /\ ret.err.kind = "NotImplemented" /\ DOMAIN bucket # {}

\* ------------------------------------------------------- namespace claims
\* The store calls of the call in progress that are of kind prim.
Calls(prim) == {i \in 1..Len(log) : log[i].prim = prim}
Failed(prim) == {i \in Calls(prim) : log[i].err # Nil}
SessionMade == Len(log) >= 1 /\ log[1].prim = "NewClient" /\ log[1].err = Nil

\* The keys k other than those of K are in b exactly as they are in a.
SameExcept(a, b, K) ==
    \A k \in Names \ K :
        /\ k \in DOMAIN b <=> k \in DOMAIN a
        /\ k \in DOMAIN a => b[k] = a[k]

C5_RenameRetries ==
    (call.op = "Rename" /\ pc \in {"Rename", "done"} /\ SessionMade)
    => LET copies == Calls("Copy")
           failed == Failed("Copy")
       IN
       /\ Cardinality(copies) <= MaxRetries
       /\ copies = 2..Len(log)
       /\ \A i \in copies : i < Len(log) => i \in failed
       /\ pc = "Rename" => (failed = copies /\ Cardinality(copies) < MaxRetries)
       /\ (pc = "done" /\ ret.err = Nil)
            => (copies # {} /\ log[Len(log)].err = Nil)
       /\ (pc = "done" /\ ret.err # Nil)
            => (/\ Cardinality(failed) = MaxRetries
                /\ failed = copies
                /\ ret.err = log[Len(log)].err
                /\ ret.err.at = 1 + MaxRetries)

C5_Witness ==
    /\ pc = "done" /\ call.op = "Rename"
    /\ Cardinality(Failed("Copy")) = MaxRetries
    /\ \E i \in Failed("Copy") : log[i].err.kind # ret.err.kind
    /\ ret.err = log[1 + MaxRetries].err

\* C6: a RemoveAll(p) in which no store call fails returns no error and
\* leaves exactly the keys that did not start with p, each with its content;
\* when no key starts with p it changes nothing.
C6_RemoveAllRemovesPrefix ==
    (pc = "done" /\ call.op = "RemoveAll"
        /\ \A i \in 1..Len(log) : log[i].err = Nil)
    => /\ ret.err = Nil
       /\ DOMAIN bucket = {k \in DOMAIN pre : ~IsPrefixOf(call.dirname, k)}
       /\ \A k \in DOMAIN bucket : bucket[k] = pre[k]

C6_Witness ==
    /\ pc = "done" /\ call.op = "RemoveAll" /\ ret.err = Nil
    /\ call.dirname = <<97, 47>>
    /\ DOMAIN pre = {<<97, 47, 49>>, <<97, 47, 50>>, <<98, 47, 49>>}
    /\ DOMAIN bucket = {<<98, 47, 49>>}
    /\ bucket[<<98, 47, 49>>] # <<>>

\* The keys RemoveAll has deleted so far.
Deleted == {log[i].key : i \in Calls("Delete") \ Failed("Delete")}

C8_RemoveAllRemovesAllItCan ==
    (pc = "done" /\ call.op = "RemoveAll" /\ Failed("Delete") # {})
    => LET first == CHOOSE i \in Failed("Delete") :
                        \A j \in Failed("Delete") : i <= j
       IN /\ ret.err = log[first].err
          /\ \A k \in DOMAIN pre :
                (IsPrefixOf(call.dirname, k) /\ k \notin
                    {log[i].key : i \in Failed("Delete")})
                => k \notin DOMAIN bucket

\* ------------------------------------------------------- streaming claims
\* The text of error e holds a refusal of the condition DoesNotExist.
IsAlreadyExists(e) ==
    \/ e.kind = "PreconditionFailed"
    \/ e.kind = "Errorf" /\ e.cause.kind = "PreconditionFailed"

\* Nothing but the condition went wrong during the call in progress.
Undisturbed ==
    \A i \in 1..Len(log) : log[i].err.kind \notin {"Transient", "Canceled"}

\* C9: StreamIntoDFS with overwrite = false on a key that exists fails, with
\* the already-exists refusal of the store when nothing else has gone wrong
\* first, and the bytes at the key (and every other object) are those from
\* before the call, whatever the source holds.
C9_NoOverwriteKeepsObject ==
    (pc = "done" /\ call.op = "StreamIntoDFS" /\ ~call.overwrite
        /\ call.name \in DOMAIN pre)
    => /\ ret.err # Nil
       /\ Undisturbed => IsAlreadyExists(ret.err)
       /\ call.name \in DOMAIN bucket
       /\ bucket[call.name] = pre[call.name]
       /\ bucket = pre

C9_Witness ==
    /\ pc = "done" /\ call.op = "StreamIntoDFS" /\ ~call.overwrite
    /\ call.name \in DOMAIN pre
    /\ call.src # pre[call.name]
    /\ log[Len(log)].prim = "Close"
    /\ ret.err.kind = "PreconditionFailed"
    /\ bucket[call.name] = pre[call.name]

ReadOps == {"ReadFile", "Open", "StreamFromDFS"}

\* C10: after StreamIntoDFS with overwrite = true returns no error, whether
\* the key existed or not, the count returned is the length of the source
\* and the object is exactly the bytes of the source, the empty sequence
\* included; the caller's next ReadFile, Open or StreamFromDFS of the key,
\* when it returns no error, yields exactly those bytes.
C10_RoundTrip ==
    /\ (pc = "done" /\ call.op = "StreamIntoDFS" /\ call.overwrite
            /\ ret.err = Nil)
       => /\ ret.n = Len(call.src)
          /\ call.name \in DOMAIN bucket
          /\ bucket[call.name] = call.src
          /\ SameExcept(pre, bucket, {call.name})
    /\ (pc = "done" /\ prev.op = "StreamIntoDFS" /\ call.op \in ReadOps
            /\ call.name = prev.name /\ ret.err = Nil)
       => ret.val = Some(prev.src)

C10_Witness ==
    /\ pc = "done" /\ prev.op = "StreamIntoDFS" /\ call.op = "StreamFromDFS"
    /\ call.name = prev.name /\ ret.err = Nil
    /\ prev.src # <<>>
    /\ ret.val = Some(prev.src)
    /\ ret.n = Len(prev.src)
\* The source Reads the call in progress has made, and whether this step
\* is a pass of io.Copy (it starts with a Read of the wrapped stream).
InStream == pc = "StreamIntoDFS"
CopyPass == InStream /\ ~frame.copied /\ Len(log') > Len(log)
CarriesCancel(e) ==
    \/ e.kind = "Canceled"
    \/ e.kind = "Errorf" /\ e.cause.kind = "Canceled"

\* C11: a Read of the cancellable stream that starts after the signal has
\* fired returns the cancellation error and no bytes and does not read the
\* wrapped source, and the call then returns an error that carries the
\* cancellation, with the bucket untouched; a Read that starts before the
\* signal is the wrapped source's Read: its bytes are the next bytes of the
\* source, and its EOF comes at the end of the source.
C11_CancelStopsReads ==
    [][/\ (InStream /\ frame.ctxDone /\ log' # log)
            => /\ Calls("Read")' = Calls("Read")
               /\ pc' = "done"
               /\ ret'.err # Nil /\ CarriesCancel(ret'.err)
               /\ ret'.n = Len(frame.wc)
               /\ bucket' = bucket
       /\ (CopyPass /\ frame.ctxDone)
            => /\ Len(log') = Len(log) + 1
               /\ log'[Len(log')].prim = "CtxErr"
               /\ log'[Len(log')].err.kind = "Canceled"
       /\ (CopyPass /\ ~frame.ctxDone)
            => LET e == log'[Len(log) + 1] IN
               /\ e.prim = "Read"
               /\ e.err = EOF => frame.pos = Len(call.src)
               /\ (e.err = Nil /\ pc' = pc)
                    => /\ frame'.pos > frame.pos
                       /\ frame'.wc =
                            frame.wc \o SubSeq(call.src, frame.pos + 1,
                                               frame'.pos)
      ]_vars

C11_Witness ==
    /\ pc = "done" /\ call.op = "StreamIntoDFS"
    /\ log[Len(log)].prim = "CtxErr"
    /\ Calls("Read") # {}
    /\ ret.n >= 1 /\ ret.n < Len(call.src) + 1
    /\ ret.err.kind = "Errorf" /\ ret.err.cause.kind = "Canceled"
    /\ bucket = pre

\* The store and stream calls of io.Copy that failed (EOF ends the copy, it
\* is no failure).
CopyFailures ==
    {i \in 1..Len(log) : /\ log[i].prim \in {"Read", "CtxErr", "Write"}
                         /\ log[i].err \notin {Nil, EOF}}

\* C12: StreamIntoDFS closes the writer only after the whole copy went
\* through: Close is the call's last store call and follows the EOF of the
\* source; when the copy fails, by a read error, a write error or the
\* cancellation, the writer is never closed, the call returns an error and
\* the bucket is as it was before the call; while the copy runs nothing of
\* it shows in the bucket.
C12_CloseOnlyAfterFullCopy ==
    /\ InStream => bucket = pre
    /\ (call.op = "StreamIntoDFS" /\ Calls("Close") # {})
        => /\ pc = "done"
           /\ Calls("Close") = {Len(log)}
           /\ CopyFailures = {}
           /\ log[Len(log) - 1].prim = "Read" /\ log[Len(log) - 1].err = EOF
           /\ ret.n = Len(call.src)
    /\ (pc = "done" /\ call.op = "StreamIntoDFS" /\ CopyFailures # {})
        => /\ Calls("Close") = {}
           /\ ret.err # Nil
           /\ call.name \in DOMAIN bucket <=> call.name \in DOMAIN pre
           /\ bucket = pre

C12_Witness ==
    /\ pc = "done" /\ call.op = "StreamIntoDFS" /\ call.overwrite
    /\ CopyFailures = {Len(log)} /\ log[Len(log)].prim = "Read"
    /\ ret.n >= 1
    /\ call.name \notin DOMAIN pre
    /\ call.name \notin DOMAIN bucket

\* C13: every error StreamIntoDFS returns names the destination, the error
\* of a failed copy and the error of a failed Close alike, and the count
\* returned with it is the number of bytes handed to the writer.
C13_ErrorsNameDestination ==
    (pc = "done" /\ call.op = "StreamIntoDFS" /\ ret.err # Nil)
    => /\ ret.err.kind = "Errorf"
       /\ ret.err.dest = call.name
       /\ ret.n <= Len(call.src)
       /\ Calls("Close") # {} => ret.n = Len(call.src)

\* ------------------------------------------------------------ copy claims
\* C14: CopyToLocal(src, dst) with src # dst opens its reader on the object
\* keyed src; when that object is missing the call returns an error, whether
\* or not an object keyed dst exists; when it returns no error the local
\* file dst holds the bytes of the object src.
C14_CopyToLocalReadsSrc ==
    (pc = "done" /\ call.op = "CopyToLocal" /\ call.src # call.dst)
    => /\ \A i \in Calls("NewReader") : log[i].key = call.src
       /\ call.src \notin DOMAIN pre => ret.err # Nil
       /\ ret.err = Nil
            => /\ call.src \in DOMAIN pre
               /\ call.dst \in DOMAIN disk
               /\ disk[call.dst] = pre[call.src]

\* The session of the call in progress has been closed or given up.
SessionReleased == \E i \in 1..Len(log) : log[i].prim = "ClientClose"

\* C15: every call that talks to the store first makes a session of its
\* own, and in every state where the call has returned that session has
\* been released.
C15_SessionsEphemeral ==
    /\ (pc # "idle" /\ call.op \in {"Stat", "ReadFile", "Open"})
        => (Len(log) >= 1 /\ Calls("NewClient") = {1})
    /\ (Finished /\ SessionMade) => SessionReleased

\* The store calls of the call in progress that failed and on which its
\* result depends: every failure, but for Rename only the last attempt.
StoreFailures ==
    {i \in 1..Len(log) : /\ log[i].err \notin {Nil, EOF}
                         /\ call.op = "Rename" => i = Len(log)}

\* C16: a call that does not go through the policy and in which a store
\* call failed returns an error that is not nil.
C16_NoErrorSwallowed ==
    (Finished /\ call.op \notin PolicyOps \cup {"User", "Append"}
        /\ StoreFailures # {})
    => (ret.outcome = "returned" /\ ret.err # Nil)

\* ----------------------------------------------------- concurrency claims
Active == {p \in Procs : inflight[p].st # "idle"}
ReturnedCalls == {p \in Procs : inflight[p].st = "done"}
Winners == {p \in ReturnedCalls : inflight[p].err = Nil}
Faulted(p) ==
    \/ inflight[p].err.kind = "Transient"
    \/ inflight[p].err.kind = "Errorf"
       /\ inflight[p].err.cause.kind = "Transient"

\* C17: of the concurrent StreamIntoDFS calls with overwrite = false on a
\* key that was absent, at most one returns success, every other one that
\* returns (and met no transient failure) fails with already-exists, and the
\* object is exactly the whole source of the one that succeeded (no object
\* while none has); with overwrite = true every call that meets no failure
\* succeeds and the object is at all times the whole source of one of the
\* calls that succeeded (the old object while none has), never a mixture.
C17_ConcurrentWriters ==
    /\ (RaceName \notin DOMAIN pre /\ \A p \in Active : ~inflight[p].overwrite)
        => /\ Cardinality(Winners) <= 1
           /\ \A p \in Winners :
                /\ RaceName \in DOMAIN bucket
                /\ bucket[RaceName] = RaceSource(p)
           /\ Winners = {} => RaceName \notin DOMAIN bucket
           /\ \A p \in ReturnedCalls \ Winners :
                Faulted(p) \/ IsAlreadyExists(inflight[p].err)
           /\ (ReturnedCalls # {} /\ \A p \in ReturnedCalls : ~Faulted(p))
                => Cardinality(Winners) = 1
    /\ (\A p \in Active : inflight[p].overwrite)
        => /\ \A p \in ReturnedCalls : p \in Winners \/ Faulted(p)
           /\ Winners = {} => bucket = pre
           /\ Winners # {}
                => /\ RaceName \in DOMAIN bucket
                   /\ \E p \in Winners : bucket[RaceName] = RaceSource(p)

C17_Witness ==
    /\ RaceName \notin DOMAIN pre
    /\ ReturnedCalls = Procs
    /\ \A p \in Procs : ~inflight[p].overwrite /\ inflight[p].wc = RaceSource(p)
    /\ Winners = {2}
    /\ inflight[1].err.kind = "PreconditionFailed"
    /\ bucket[RaceName] = RaceSource(2)

\* C18: a StreamFromDFS that has opened its source closes it exactly once,
\* as its last step, on every path: when the copy fails the destination is
\* not closed and an error is returned; when the copy succeeds the
\* destination is closed once, before the source; when the source cannot be
\* opened the call returns 0 bytes and an error and closes nothing.
C18_StreamFromDFSCloses ==
    (pc = "done" /\ call.op = "StreamFromDFS")
    => LET copyFailed == \E i \in Calls("Read") \cup Calls("Write") :
                             log[i].err # Nil
       IN
       IF log[1].err # Nil
       THEN /\ Len(log) = 1
            /\ ret.n = 0 /\ ret.err # Nil
       ELSE /\ Calls("Close") = {Len(log)}
            /\ copyFailed => (Calls("CloseDst") = {} /\ ret.err # Nil)
            /\ ~copyFailed
                 => /\ Calls("CloseDst") = {Len(log) - 1}
                    /\ ret.n = Len(pre[call.name])
                    /\ ret.err # Nil <=> log[Len(log) - 1].err # Nil

C18_Witness ==
    /\ pc = "done" /\ call.op = "StreamFromDFS"
    /\ Failed("CloseDst") = {3}
    /\ Calls("Close") = {4}
    /\ ret.err.kind = "Errorf" /\ ret.err.msg = "failed to close file"
    /\ ret.n >= 1

\* C19: once CopyToRemote has made its writer it closes it exactly once on
\* every path, the path of a failed copy included, and returns the error of
\* the copy alone: when that Close succeeds the object dst is replaced by
\* the bytes copied so far, a prefix of the local file (the whole file when
\* the copy succeeded); when it fails the bucket is as before, whatever the
\* call returns.
C19_CopyToRemoteAlwaysCloses ==
    (pc = "done" /\ call.op = "CopyToRemote")
    => IF Len(log) < 3
       THEN Calls("Close") = {} /\ ret.err # Nil /\ bucket = pre
       ELSE LET file == disk[call.src] IN
            /\ Calls("Close") = {4}
            /\ ret.err = log[3].err
            /\ log[4].err # Nil => bucket = pre
            /\ log[4].err = Nil
                 => /\ call.dst \in DOMAIN bucket
                    /\ IsPrefixOf(bucket[call.dst], file)
                    /\ ret.err = Nil => bucket[call.dst] = file
                    /\ SameExcept(pre, bucket, {call.dst})

C19_Witness ==
    /\ pc = "done" /\ call.op = "CopyToRemote"
    /\ ret.err # Nil
    /\ Len(log) >= 4 /\ log[4].prim = "Close" /\ log[4].err = Nil
    /\ call.dst \in DOMAIN pre /\ pre[call.dst] # <<>>
    /\ bucket[call.dst] = <<>>
    /\ disk[call.src] # <<>>

\* ------------------------------------------------------------ mode claims
\* C20: New keeps whatever mode it is given; with a mode that is none of
\* Panic, Warn and Ignore every call of User, Chmod, Chown, Chtimes, Walk
\* and Append aborts, with the bucket untouched; Stat, ReadFile and Open
\* never look at the mode: in every mode they return what the bucket holds
\* when no store call fails, and ReadFile and Open return not-found for a
\* missing key.
C20_InvalidModePanics ==
    Finished
    => /\ (BehaviourMode \notin {Panic, Warn, Ignore}
            /\ call.op \in PolicyOps \cup {"User", "Append"})
           => /\ ret.outcome = "panicked"
              /\ ret.msg = "Uninitialized gcsfs behaviour mode"
              /\ bucket = pre
       /\ (call.op \in {"ReadFile", "Open"} /\ NoTransient)
           => /\ ret.outcome = "returned"
              /\ bucket = pre
              /\ IF call.name \in DOMAIN pre
                 THEN ret.err = Nil /\ ret.val = Some(pre[call.name])
                 ELSE ret.err.kind = "ErrObjectNotExist"
       /\ (call.op = "Stat" /\ NoTransient /\ call.name \in DOMAIN pre)
           => /\ ret.outcome = "returned" /\ ret.err = Nil
              /\ ret.val = Some(FileInfoOf(call.name, Len(pre[call.name])))

C20_Witness ==
    /\ pc = "panicked" /\ BehaviourMode = OtherBehaviour
    /\ call.op = "Walk"
    /\ ret.msg = "Uninitialized gcsfs behaviour mode"
    /\ DOMAIN bucket # {}
====
